---- MODULE Spec2Model ----
(***************************************************************************)
(* Model of pip's option-default resolution, src/pip/baseparser.py:        *)
(* ConfigOptionParser (update_defaults, normalize_keys, get_config_section,*)
(* get_environ_vars, get_default_values), UpdatingDefaultsHelpFormatter    *)
(* (expand_default) and the option schema of create_main_parser.           *)
(*                                                                         *)
(* Python strings are sequences of one-character strings, so that          *)
(* str.replace, str.startswith, str.lower and str.split are computed the   *)
(* way Python computes them.                                               *)
(***************************************************************************)
EXTENDS Integers, Sequences, FiniteSets, TLC

\* ------------------------------------------------------------------ bounds
\* Settings (entries of the configuration file and environment variables
\* together) in the specification Spec
MaxItems == 2
\* Settings of the timeout option in the specification SpecAlias
MaxAliasItems == 3
\* Entries of the configuration file in the specification SpecEnv
MaxHelpFileItems == 1
\* Environment variables set at the same time in the specification SpecEnv
MaxSetVars == 2

\* ----------------------------------------------------------------- strings
UpperCase ==
  <<"A","B","C","D","E","F","G","H","I","J","K","L","M",
    "N","O","P","Q","R","S","T","U","V","W","X","Y","Z">>

LowerCase ==
  <<"a","b","c","d","e","f","g","h","i","j","k","l","m",
    "n","o","p","q","r","s","t","u","v","w","x","y","z">>

Digits == <<"0","1","2","3","4","5","6","7","8","9">>

Whitespace == {" ", "\n", "\t"}

UpperSet == {UpperCase[i] : i \in DOMAIN UpperCase}

LowerOf == [c \in UpperSet |-> LowerCase[CHOOSE i \in DOMAIN UpperCase : UpperCase[i] = c]]

\* str.lower() for one character
LowerChar(c) == IF c \in UpperSet THEN LowerOf[c] ELSE c

\* str.lower()
Lower(s) == [i \in 1..Len(s) |-> LowerChar(s[i])]

\* str.startswith(p)
StartsWith(s, p) == Len(s) >= Len(p) /\ SubSeq(s, 1, Len(p)) = p

\* s[i:] in Python, for a 1-based i
Drop(s, i) == SubSeq(s, i, Len(s))

\* str.replace(old, new) for a non-empty old: every non-overlapping
\* occurrence, scanning from the left
RECURSIVE Replace(_, _, _)
Replace(s, old, new) ==
  IF Len(s) < Len(old) THEN s
  ELSE IF StartsWith(s, old)
    THEN new \o Replace(Drop(s, Len(old) + 1), old, new)
    ELSE <<s[1]>> \o Replace(Drop(s, 2), old, new)

\* str.split() without arguments: the maximal runs of non-whitespace
RECURSIVE SplitFrom(_, _)
SplitFrom(s, word) ==
  IF s = <<>> THEN (IF word = <<>> THEN <<>> ELSE <<word>>)
  ELSE IF s[1] \in Whitespace
    THEN (IF word = <<>> THEN <<>> ELSE <<word>>) \o SplitFrom(Tail(s), <<>>)
    ELSE SplitFrom(Tail(s), Append(word, s[1]))

Split(s) == SplitFrom(s, <<>>)

DigitSet == {Digits[i] : i \in DOMAIN Digits}

DigitOf == [c \in DigitSet |-> (CHOOSE i \in DOMAIN Digits : Digits[i] = c) - 1]

IsDigit(c) == c \in DigitSet

DigitValue(c) == DigitOf[c]

RECURSIVE DecimalValue(_)
DecimalValue(s) ==
  IF s = <<>> THEN 0
  ELSE 10 * DecimalValue(SubSeq(s, 1, Len(s) - 1)) + DigitValue(s[Len(s)])

\* All orders in which the elements of a finite set can be enumerated
RECURSIVE Perms(_)
Perms(S) ==
  IF S = {} THEN {<<>>}
  ELSE UNION {{<<x>> \o p : p \in Perms(S \ {x})} : x \in S}

\* ------------------------------------------------------------------ values
\* A Python value: t is its type, n the number of a bool, int or float,
\* s the characters of a str, l the members of a list or tuple of str.
PyNone == [t |-> "none", n |-> 0, s |-> <<>>, l |-> <<>>]

PyBool(b) == [t |-> "bool", n |-> IF b THEN 1 ELSE 0, s |-> <<>>, l |-> <<>>]

PyInt(i) == [t |-> "int", n |-> i, s |-> <<>>, l |-> <<>>]

PyFloat(x) == [t |-> "float", n |-> x, s |-> <<>>, l |-> <<>>]

PyStr(chars) == [t |-> "str", n |-> 0, s |-> chars, l |-> <<>>]

PyList(members) == [t |-> "list", n |-> 0, s |-> <<>>, l |-> members]

\* ------------------------------------------------------------------ schema
\* The long option strings registered by create_main_parser
opt_help == <<"-","-","h","e","l","p">>
opt_verbose == <<"-","-","v","e","r","b","o","s","e">>
opt_no_input == <<"-","-","n","o","-","i","n","p","u","t">>
opt_log == <<"-","-","l","o","g">>
opt_proxy == <<"-","-","p","r","o","x","y">>
opt_timeout == <<"-","-","t","i","m","e","o","u","t">>
opt_default_timeout == <<"-","-","d","e","f","a","u","l","t","-","t","i","m","e","o","u","t">>
opt_exists_action == <<"-","-","e","x","i","s","t","s","-","a","c","t","i","o","n">>

\* The Option objects after optparse has built them (an untyped "store"
\* is given type "string" and nargs 1, a typed action nargs 1; a flag or a
\* counter has neither type nor nargs: nargs 0 stands for None).  One
\* option of every action/type combination create_main_parser registers.
Options ==
  [ help |->
      [long_opts |-> {opt_help}, action |-> "store_true", type |-> "none",
       nargs |-> 0, choices |-> {}, dest |-> "help", default |-> PyNone],
    verbose |->
      [long_opts |-> {opt_verbose}, action |-> "count", type |-> "none",
       nargs |-> 0, choices |-> {}, dest |-> "verbose", default |-> PyInt(0)],
    no_input |->
      [long_opts |-> {opt_no_input}, action |-> "store_true", type |-> "none",
       nargs |-> 0, choices |-> {}, dest |-> "no_input",
       default |-> PyBool(FALSE)],
    log |->
      [long_opts |-> {opt_log}, action |-> "store", type |-> "string",
       nargs |-> 1, choices |-> {}, dest |-> "log", default |-> PyNone],
    proxy |->
      [long_opts |-> {opt_proxy}, action |-> "store", type |-> "string",
       nargs |-> 1, choices |-> {}, dest |-> "proxy", default |-> PyStr(<<>>)],
    timeout |->
      [long_opts |-> {opt_timeout, opt_default_timeout}, action |-> "store",
       type |-> "float", nargs |-> 1, choices |-> {}, dest |-> "timeout",
       default |-> PyInt(15)],
    exists_action |->
      [long_opts |-> {opt_exists_action}, action |-> "append",
       type |-> "choice", nargs |-> 1,
       choices |-> {<<"s">>, <<"i">>, <<"w">>, <<"b">>},
       dest |-> "exists_action", default |-> PyList(<<>>)] ]

Dests == DOMAIN Options

\* OptionParser._get_all_options(): the options in the order of their
\* registration, those of the parser before those of its group
option_list ==
  <<"no_input", "help", "verbose", "log", "proxy", "timeout", "exists_action">>

\* parser.defaults as add_option fills it: the option's default, None
\* when it declares none
SchemaDefaults == [d \in Dests |-> Options[d].default]

\* OptionParser.process_default_values, set by OptionParser.__init__
process_default_values == TRUE

\* ---------------------------------------------------------------- coercion
\* The outcome of a conversion: ok with a value, or the exception raised
Ok(v) == [err |-> "ok", val |-> v]

Raise(e) == [err |-> e, val |-> PyNone]

TrueTokens ==
  {<<"y">>, <<"y","e","s">>, <<"t">>, <<"t","r","u","e">>, <<"o","n">>,
   <<"1">>}

FalseTokens ==
  {<<"n">>, <<"n","o">>, <<"f">>, <<"f","a","l","s","e">>,
   <<"o","f","f">>, <<"0">>}

\* distutils.util.strtobool, called on the raw string
strtobool(val) ==
  IF Lower(val.s) \in TrueTokens THEN Ok(PyInt(1))
  ELSE IF Lower(val.s) \in FalseTokens THEN Ok(PyInt(0))
  ELSE Raise("ValueError")

\* optparse check_builtin for type "float": float(value), on the decimal
\* digit strings; any other string is reported as an invalid value
check_float(value) ==
  IF value.t # "str" THEN Raise("TypeError")
  ELSE IF value.s # <<>> /\ \A i \in 1..Len(value.s) : IsDigit(value.s[i])
    THEN Ok(PyFloat(DecimalValue(value.s)))
    ELSE Raise("OptionValueError")

\* optparse check_choice: value in option.choices
check_choice(option, value) ==
  IF value.t = "str" /\ value.s \in option.choices
    THEN Ok(value)
    ELSE Raise("OptionValueError")

\* Option.check_value: the checker of the option's type, if it has one
check_value(option, value) ==
  IF option.type = "float" THEN check_float(value)
  ELSE IF option.type = "choice" THEN check_choice(option, value)
  ELSE Ok(value)

\* The members a for loop over the value visits
Members(value) ==
  IF value.t = "list" THEN [i \in 1..Len(value.l) |-> PyStr(value.l[i])]
  ELSE [i \in 1..Len(value.s) |-> PyStr(<<value.s[i]>>)]

\* Option.convert_value: one checked value when nargs is 1, else the
\* tuple of the checked members
convert_value(option, value) ==
  IF option.nargs = 1 THEN check_value(option, value)
  ELSE IF value.t \notin {"str", "list"} THEN Raise("TypeError")
  ELSE LET ms == Members(value)
           rs == [i \in DOMAIN ms |-> check_value(option, ms[i])]
       IN IF \E i \in DOMAIN rs : rs[i].err # "ok"
            THEN Raise((rs[CHOOSE i \in DOMAIN rs : rs[i].err # "ok"]).err)
            ELSE Ok(PyList([i \in DOMAIN rs |-> ms[i].s]))

\* OptionContainer.get_option for a key that starts with "--": the dests
\* of the options registered under that long option string (none or one)
get_option(options, key) == {d \in DOMAIN options : key \in options[d].long_opts}

\* ------------------------------------------------------------------ inputs
\* The [global] section and the section of a command
Sections == {"global", "install"}

\* Option names a configuration file may hold (RawConfigParser lower-cases
\* them): both spellings of the timeout option, a counter, the choice list
\* and a name no option has
FileKeys == {<<"t","i","m","e","o","u","t">>, <<"d","e","f","a","u","l","t","-","t","i","m","e","o","u","t">>, <<"v","e","r","b","o","s","e">>, <<"e","x","i","s","t","s","-","a","c","t","i","o","n">>, <<"f","o","o","-","b","a","r">>}

\* Raw values: empty, two numbers (of which "1" is also a truth value)
\* and a word that is a member of the --exists-action choices
RawValues == {<<>>, <<"1">>, <<"5">>, <<"s">>}

\* Names of environment variables: with the prefix, with the prefix
\* twice, for no option, and with the prefix not at the start
EnvNames == {<<"P","I","P","_","T","I","M","E","O","U","T">>, <<"P","I","P","_","P","I","P","_","T","I","M","E","O","U","T">>, <<"P","I","P","_","F","O","O","_","B","A","R">>, <<"X","P","I","P","_","T","I","M","E","O","U","T">>}

\* The two spellings of the timeout option, and the variable that sets it
AliasKeys == {<<"t","i","m","e","o","u","t">>, <<"d","e","f","a","u","l","t","-","t","i","m","e","o","u","t">>}

AliasEnvNames == {<<"P","I","P","_","T","I","M","E","O","U","T">>}

\* The partial functions from D to R that are defined on exactly n points
Exactly(D, R, n) ==
  UNION {[X -> R] : X \in {Y \in SUBSET D : Cardinality(Y) = n}}

\* The partial functions from D to R that are defined on at most n points
Partial(D, R, n) == UNION {Exactly(D, R, k) : k \in 0..n}

\* What a parser called nm reads of the configuration file is the values
\* by (section, key) in the sections global and nm
Slots(nm, keys) == {"global", nm} \X keys

\* ------------------------------------------------------------------- state
VARIABLES
  name,       \* ConfigOptionParser.name
  config,     \* ConfigOptionParser.config, read once by __init__
  environ,    \* os.environ
  defaults,   \* OptionParser.defaults
  options,    \* the Option objects of the parser
  yielded,    \* the pairs the last get_environ_vars() produced
  result,     \* what the last call returned to its caller
  pc          \* "ready", or how the process ended

vars == <<name, config, environ, defaults, options, yielded, result, pc>>

\* Nothing has returned yet
NoResult == [call |-> "none", values |-> SchemaDefaults]

\* -------------------------------------------------------------- operations
\* One enumeration of a finite set
SeqOf(S) == CHOOSE p \in Perms(S) : TRUE

\* dict.update: the entries of b added to a, replacing those a has
DictUpdate(a, b) ==
  [k \in DOMAIN a \cup DOMAIN b |-> IF k \in DOMAIN b THEN b[k] ELSE a[k]]

\* ConfigOptionParser.get_config_section: the (key, value) items of the
\* section, none when the file has no such section
get_config_section(cfg, section) ==
  IF \E e \in DOMAIN cfg : e[1] = section
    THEN LET keys == SeqOf({e[2] : e \in {x \in DOMAIN cfg : x[1] = section}})
         IN [i \in DOMAIN keys |-> <<keys[i], cfg[<<section, keys[i]>>]>>]
    ELSE <<>>

\* The prefix argument of get_environ_vars
prefix == <<"P","I","P","_">>

\* ConfigOptionParser.get_environ_vars: the pairs the generator yields
\* when os.environ.items() enumerates the variables in the given order
RECURSIVE get_environ_vars(_, _)
get_environ_vars(env, order) ==
  IF order = <<>> THEN <<>>
  ELSE LET key == Head(order)
           rest == get_environ_vars(env, Tail(order))
       IN IF StartsWith(key, prefix)
            THEN << <<Lower(Replace(key, prefix, <<>>)), env[key]>> >> \o rest
            ELSE rest

\* The key normalize_keys stores a raw key under
NormalizedKey(key) ==
  LET k == Replace(key, <<"_">>, <<"-">>)
  IN IF StartsWith(k, <<"-", "-">>) THEN k ELSE <<"-", "-">> \o k

\* ConfigOptionParser.normalize_keys: a dict, a later item replacing an
\* earlier one that has the same normalized key
RECURSIVE normalize_keys(_)
normalize_keys(items) ==
  IF items = <<>> THEN [k \in {} |-> <<>>]
  ELSE LET n == Len(items)
           normalized == normalize_keys(SubSeq(items, 1, n - 1))
           key == NormalizedKey(items[n][1])
       IN DictUpdate(normalized, [k \in {key} |-> items[n][2]])

\* update_defaults, the dict config it builds: the global section, then
\* the section self.name, then the environment
MergedConfig(cfg, nm, environ_vars) ==
  LET files == DictUpdate(normalize_keys(get_config_section(cfg, "global")),
                          normalize_keys(get_config_section(cfg, nm)))
  IN DictUpdate(files, normalize_keys(environ_vars))

\* update_defaults, what its loop does with a non-empty value of the
\* option d: st holds defaults and the Option objects as the items before
\* left them.  err becomes "exit3" for sys.exit(3), or the exception that
\* escapes.
set_default(st, d, val) ==
  LET isAppend == st.options[d].action = "append"
      opts1 == IF isAppend THEN st.options
               ELSE [st.options EXCEPT ![d].nargs = 1]
      split == IF isAppend THEN PyList(Split(val)) ELSE PyStr(val)
      truth == IF opts1[d].action \in {"store_true", "store_false", "count"}
                 THEN strtobool(split)
                 ELSE Ok(split)
      converted == convert_value(opts1[d], truth.val)
  IN IF truth.err # "ok"
       THEN [st EXCEPT !.err = truth.err, !.options = opts1]
     ELSE IF converted.err = "OptionValueError"
       THEN [st EXCEPT !.err = "exit3", !.options = opts1]
     ELSE IF converted.err # "ok"
       THEN [st EXCEPT !.err = converted.err, !.options = opts1]
     ELSE [st EXCEPT !.defaults[opts1[d].dest] = converted.val,
                     !.options = opts1]

\* The loop body with a key that names no option ending the call, the way
\* optparse treats an unknown option of the command line
update_item_unknown_is_fatal(st, key, val) ==
  LET found == get_option(st.options, key)
  IN IF found = {} THEN [st EXCEPT !.err = "exit3"]
     ELSE IF val = <<>> THEN st
     ELSE set_default(st, CHOOSE d \in found : TRUE, val)

\* update_defaults, the body of its loop for one item of config: a key
\* that names no option and an empty value are passed over
update_item(st, key, val) ==
  LET found == get_option(st.options, key)
  IN IF found = {} \/ val = <<>> THEN st
     ELSE set_default(st, CHOOSE d \in found : TRUE, val)

\* update_defaults, the loop over config.items() visiting the keys in the
\* given order, until the items are done or one of them ends the call
RECURSIVE UpdateLoop(_, _, _)
UpdateLoop(st, merged, order) ==
  IF order = <<>> THEN st
  ELSE LET s == update_item(st, Head(order), merged[Head(order)])
       IN IF s.err # "ok" THEN s ELSE UpdateLoop(s, merged, Tail(order))

\* ConfigOptionParser.update_defaults on the merged config.  The outcome:
\* err is "ok" when it returns; defaults and options are as it left them.
update_defaults(defs, opts, merged, order) ==
  UpdateLoop([err |-> "ok", defaults |-> defs, options |-> opts], merged, order)

\* get_default_values, its loop over the options: a default that is still
\* a string is checked against the option's type
RECURSIVE CheckStringDefaults(_, _, _)
CheckStringDefaults(defs, opts, todo) ==
  IF todo = <<>> THEN [err |-> "ok", defaults |-> defs, options |-> opts]
  ELSE LET option == opts[Head(todo)]
           default == defs[option.dest]
           checked == check_value(option, default)
       IN IF default.t # "str"
            THEN CheckStringDefaults(defs, opts, Tail(todo))
          ELSE IF checked.err # "ok"
            THEN [err |-> checked.err, defaults |-> defs, options |-> opts]
          ELSE CheckStringDefaults([defs EXCEPT ![option.dest] = checked.val],
                                   opts, Tail(todo))

\* ConfigOptionParser.get_default_values: defaults is the mapping of the
\* Values object it returns
get_default_values(defs, opts, merged, order) ==
  IF ~process_default_values
    THEN [err |-> "ok", defaults |-> defs, options |-> opts]
    ELSE LET updated == update_defaults(defs, opts, merged, order)
         IN IF updated.err # "ok" THEN updated
            ELSE CheckStringDefaults(updated.defaults, updated.options,
                                     option_list)

\* ----------------------------------------------------------------- actions
\* A call of parser.get_default_values(): it works on a copy of
\* parser.defaults
GetDefaultValues ==
  /\ pc = "ready"
  /\ \E envOrder \in Perms(DOMAIN environ) :
     \E environ_vars \in {get_environ_vars(environ, envOrder)} :
     \E merged \in {MergedConfig(config, name, environ_vars)} :
     \E order \in Perms(DOMAIN merged) :
     \E r \in {get_default_values(defaults, options, merged, order)} :
       /\ yielded' = environ_vars
       /\ options' = r.options
       /\ pc' = IF r.err = "ok" THEN "ready" ELSE r.err
       /\ result' = IF r.err = "ok"
                      THEN [call |-> "get_default_values", values |-> r.defaults]
                      ELSE NoResult
  /\ UNCHANGED <<name, config, environ, defaults>>

\* A call of UpdatingDefaultsHelpFormatter.expand_default while the help
\* is rendered: it updates parser.defaults itself, and the help text shows
\* the values found there
ExpandDefault ==
  /\ pc = "ready"
  /\ \E envOrder \in Perms(DOMAIN environ) :
     \E environ_vars \in {get_environ_vars(environ, envOrder)} :
     \E merged \in {MergedConfig(config, name, environ_vars)} :
     \E order \in Perms(DOMAIN merged) :
     \E r \in {update_defaults(defaults, options, merged, order)} :
       /\ yielded' = environ_vars
       /\ options' = r.options
       /\ defaults' = r.defaults
       /\ pc' = IF r.err = "ok" THEN "ready" ELSE r.err
       /\ result' = IF r.err = "ok"
                      THEN [call |-> "expand_default", values |-> r.defaults]
                      ELSE NoResult
  /\ UNCHANGED <<name, config, environ>>

\* The surrounding process sets an environment variable; what earlier
\* calls returned is no longer looked at
Putenv(limit) ==
  /\ pc = "ready"
  /\ \E k \in EnvNames, v \in RawValues :
       /\ k \in DOMAIN environ \/ Cardinality(DOMAIN environ) < limit
       /\ environ' = DictUpdate(environ, [x \in {k} |-> v])
  /\ yielded' = <<>>
  /\ result' = NoResult
  /\ UNCHANGED <<name, config, defaults, options, pc>>

\* The surrounding process removes an environment variable
Unsetenv ==
  /\ pc = "ready"
  /\ \E k \in DOMAIN environ :
       environ' = [x \in DOMAIN environ \ {k} |-> environ[x]]
  /\ yielded' = <<>>
  /\ result' = NoResult
  /\ UNCHANGED <<name, config, defaults, options, pc>>

\* ---------------------------------------------------------- specifications
\* The parser as ConfigOptionParser.__init__ and the add_option calls
\* leave it
Constructed ==
  /\ defaults = SchemaDefaults
  /\ options = Options
  /\ yielded = <<>>
  /\ result = NoResult
  /\ pc = "ready"

\* Any configuration file and environment that hold at most MaxItems
\* settings together, then calls of get_default_values and help renderings
Init ==
  /\ name \in Sections
  /\ \E n \in 0..MaxItems :
       /\ config \in Exactly(Slots(name, FileKeys), RawValues, n)
       /\ environ \in Partial(EnvNames, RawValues, MaxItems - n)
  /\ Constructed

Next == GetDefaultValues \/ ExpandDefault

Spec == Init /\ [][Next]_vars

\* The same with up to MaxAliasItems settings, all of them of the timeout
\* option under one of its spellings
InitAlias ==
  /\ name \in Sections
  /\ \E n \in 0..MaxAliasItems :
       /\ config \in Exactly(Slots(name, AliasKeys), RawValues, n)
       /\ environ \in Partial(AliasEnvNames, RawValues, MaxAliasItems - n)
  /\ Constructed

SpecAlias == InitAlias /\ [][Next]_vars

\* Calls and help renderings with the environment changing in between,
\* starting from an environment without variables
InitEnv ==
  /\ name \in Sections
  /\ config \in Partial(Slots(name, FileKeys), RawValues, MaxHelpFileItems)
  /\ environ = [k \in {} |-> <<>>]
  /\ Constructed

NextEnv == GetDefaultValues \/ ExpandDefault \/ Putenv(MaxSetVars) \/ Unsetenv

SpecEnv == InitEnv /\ [][NextEnv]_vars

\* ------------------------------------------------- what the claims speak of
\* A call has run since the environment last changed
Called == result.call # "none" \/ pc # "ready"

\* Every long option string of the parser
LongOpts == UNION {Options[d].long_opts : d \in Dests}

\* The name of an environment variable carries the prefix
Prefixed(n) == StartsWith(n, prefix)

\* The key of a prefixed variable: the name without its leading prefix,
\* lower-cased
EnvKey(n) == Lower(Drop(n, Len(prefix) + 1))

\* The non-empty values the environment gives the normalized key k
EnvValues(k) ==
  {environ[n] : n \in {m \in DOMAIN environ :
                         Prefixed(m) /\ NormalizedKey(EnvKey(m)) = k}}

\* The values a section of the configuration file gives the key k
SectionValues(section, k) ==
  {config[e] : e \in {x \in DOMAIN config :
                        x[1] = section /\ NormalizedKey(x[2]) = k}}

\* The values a source gives the option d, under any of its spellings
EnvSettings(d) == UNION {EnvValues(k) : k \in Options[d].long_opts}

SectionSettings(section, d) ==
  UNION {SectionValues(section, k) : k \in Options[d].long_opts}

\* A raw value the declared kind of option d accepts
Coercible(d, v) ==
  /\ v # <<>>
  /\ Options[d].action \in {"store_true", "store_false", "count"}
       => Lower(v) \in TrueTokens \cup FalseTokens
  /\ Options[d].type = "float" => \A i \in DOMAIN v : IsDigit(v[i])
  /\ Options[d].type = "choice"
       => \A i \in DOMAIN Split(v) : Split(v)[i] \in Options[d].choices

\* The typed value of a coercible raw value
Coerced(d, v) ==
  IF Options[d].action \in {"store_true", "store_false", "count"}
    THEN PyInt(IF Lower(v) \in TrueTokens THEN 1 ELSE 0)
  ELSE IF Options[d].action = "append" THEN PyList(Split(v))
  ELSE IF Options[d].type = "float" THEN PyFloat(DecimalValue(v))
  ELSE PyStr(v)

\* The config dicts update_defaults can build from the given sources
MergedOf(cfg, env) ==
  {MergedConfig(cfg, name, get_environ_vars(env, o)) : o \in Perms(DOMAIN env)}

\* The outcomes get_default_values can have on a config dict
Resolutions(defs, opts, merged) ==
  {get_default_values(defs, opts, merged, o) : o \in Perms(DOMAIN merged)}

\* The mappings get_default_values can return for the given sources
Returned(defs, opts, cfg, env) ==
  {r.defaults : r \in {x \in UNION {Resolutions(defs, opts, m) : m \in MergedOf(cfg, env)} :
                         x.err = "ok"}}

\* The ways a call can end for the given sources
Endings(defs, opts, cfg, env) ==
  {r.err : r \in UNION {Resolutions(defs, opts, m) : m \in MergedOf(cfg, env)}}

\* A mapping without the entries whose value is the empty string
WithoutEmpty(f) == [x \in {y \in DOMAIN f : f[y] # <<>>} |-> f[x]]

\* The configuration file without the keys that name no option, and the
\* environment without the variables whose key names no option
KnownConfig ==
  [e \in {x \in DOMAIN config : NormalizedKey(x[2]) \in LongOpts} |-> config[e]]

KnownEnviron ==
  [n \in {m \in DOMAIN environ :
            \A p \in {get_environ_vars(environ, <<m>>)} :
              \A i \in DOMAIN p : NormalizedKey(p[i][1]) \in LongOpts}
     |-> environ[n]]

UnknownSet ==
  \/ \E e \in DOMAIN config :
       NormalizedKey(e[2]) \notin LongOpts /\ config[e] # <<>>
  \/ \E n \in DOMAIN environ :
       Prefixed(n) /\ NormalizedKey(EnvKey(n)) \notin LongOpts /\ environ[n] # <<>>

\* ------------------------------------------------------------------ claims
\* C1: a key that has a non-empty coercible value both in the
\* configuration file and in a PIP_ environment variable resolves its
\* option to the coerced value of the environment.
C1_EnvironmentBeatsFile ==
  result.call # "none" =>
    \A k \in LongOpts : \A d \in get_option(Options, k) :
      \A e \in EnvValues(k) :
        \A f \in SectionValues("global", k) \cup SectionValues(name, k) :
          (Coercible(d, e) /\ Coercible(d, f)) => result.values[d] = Coerced(d, e)

\* C2: a key that has different non-empty coercible values in [global]
\* and in the section of the command, and whose option the environment
\* does not set, resolves its option to the value of the command section.
C2_CommandSectionBeatsGlobal ==
  result.call # "none" =>
    \A k \in LongOpts : \A d \in get_option(Options, k) :
      \A g \in SectionValues("global", k) : \A c \in SectionValues(name, k) :
        (g # c /\ Coercible(d, g) /\ Coercible(d, c) /\ EnvSettings(d) = {})
          => result.values[d] = Coerced(d, c)

\* C3: an empty string in a source acts as if the source did not mention
\* the option: what get_default_values returns is what it can return for
\* the sources without their empty entries.
C3_EmptyActsAsAbsent ==
  result.call = "get_default_values" =>
    result.values \in Returned(defaults, options, WithoutEmpty(config),
                               WithoutEmpty(environ))

\* C4: a value of an option that cannot be coerced ends the call with
\* exit status 3: no exception escapes the call, and no call returns
\* while a source holds such a value.
C4_CoercionFailureExits3 ==
  /\ pc \in {"ready", "exit3"}
  /\ result.call # "none" =>
       \A m \in {MergedConfig(config, name, yielded)} : \A k \in DOMAIN m :
         \A d \in get_option(Options, k) : m[k] = <<>> \/ Coercible(d, m[k])

\* C5: a member of the choices of --exists-action given as its value is
\* accepted without error, and the option resolves to the sequence that
\* holds that value.
C5_ChoiceValueAccepted ==
  \A m \in {MergedConfig(config, name, yielded)} :
    (Called /\ opt_exists_action \in DOMAIN m
       /\ m[opt_exists_action] \in Options["exists_action"].choices) =>
      /\ pc # "ready" =>
           \E k \in DOMAIN m \ {opt_exists_action} :
             \E d \in get_option(Options, k) :
               m[k] # <<>> /\ ~Coercible(d, m[k])
      /\ result.call # "none" =>
           result.values["exists_action"] = PyList(<<m[opt_exists_action]>>)

\* C6: a key that names no option is never entered into the defaults and
\* never ends the call: the defaults keep the keys of the schema, and what
\* a call returns and the way it ends are what they can be for the sources
\* without such keys.
C6_UnknownKeysIgnored ==
  /\ DOMAIN defaults = Dests
  /\ DOMAIN result.values = Dests
  /\ result.call = "get_default_values" =>
       result.values \in Returned(defaults, options, KnownConfig, KnownEnviron)
  /\ pc # "ready" => pc \in Endings(defaults, options, KnownConfig, KnownEnviron)

\* A call has returned while a source gives a value to a key that names
\* no option, and the call has changed a default
C6_Witness ==
  /\ result.call = "get_default_values"
  /\ UnknownSet
  /\ result.values # SchemaDefaults

\* C7: an option set under different spellings in different sources
\* resolves to a value of the highest source that sets it: the
\* environment, else the section of the command, else [global].
C7_PrecedencePerOption ==
  result.call # "none" =>
    \A d \in Dests :
      \A env \in {EnvSettings(d)} : \A own \in {SectionSettings(name, d)} :
        \A glob \in {SectionSettings("global", d)} :
          ((env \cup own \cup glob # {})
             /\ \A v \in env \cup own \cup glob : Coercible(d, v)) =>
            result.values[d] \in
              {Coerced(d, v) : v \in IF env # {} THEN env
                                     ELSE IF own # {} THEN own ELSE glob}

\* C8: a call keeps nothing from earlier calls and help renderings: an
\* option that no key of the configuration file and no variable of the
\* environment names at the call resolves to its schema default, whatever
\* the sources held at earlier calls and help renderings.
C8_NoStateBetweenPasses ==
  result.call = "get_default_values" =>
    \A m \in {MergedConfig(config, name, yielded)} :
      \A d \in Dests :
        (\A k \in DOMAIN m : d \notin get_option(Options, k))
          => result.values[d] = SchemaDefaults[d]

\* C9: a call that returns leaves every attribute of every Option as the
\* parser's construction set it.
C9_OptionsUnchanged == result.call # "none" => options = Options

\* C10: get_environ_vars yields one pair for every variable whose name
\* starts with PIP_, its key the name without that leading PIP_ and
\* lower-cased, its value the variable's value.
C10_LeadingPrefixStripped ==
  Called =>
    /\ Len(yielded) = Cardinality({n \in DOMAIN environ : Prefixed(n)})
    /\ {yielded[i] : i \in DOMAIN yielded} =
         {<<EnvKey(n), environ[n]>> : n \in {m \in DOMAIN environ : Prefixed(m)}}

====
